---- MODULE Spec2Model ----
(***************************************************************************)
(* Model of processing.py (Udacity MongoDB, problem set "Preparing Data"): *)
(* process_file reads rows of a csv.DictReader, cleans the fields listed   *)
(* in FIELDS and returns a list of dictionaries.                           *)
(*                                                                         *)
(* Python strings are sequences of one-character strings.  Python values   *)
(* stored in dictionaries are tagged records (None, str, list, dict).      *)
(* Dictionaries are functions from keys to values.                         *)
(***************************************************************************)
EXTENDS Integers, Sequences, FiniteSets, TLC

VARIABLES
  fields,          \* the fields argument of process_file
  fieldnames,      \* the columns of the file, in the iteration order of its row dictionaries
  leading,         \* how many lines the file has for the three reader.next() calls
  csvrows,         \* the rows the reader yields after them, each a dictionary column -> cell
  skipped,         \* completed reader.next() calls
  linenum,         \* rows the reader has yielded to the for loop
  line,            \* the row being processed
  iter,            \* columns of the row still to be visited by "for element in line"
  element,         \* loop variable of the inner loop
  temp,            \* dictionary under construction
  classification,  \* nested dictionary under construction
  data,            \* list of finished dictionaries
  pc               \* position in process_file

vars == <<fields, fieldnames, leading, csvrows, skipped, linenum, line, iter, element,
          temp, classification, data, pc>>

----------------------------------------------------------------------------
(* Bounds of the model *)

MaxRows == 2
MaxLongCols == 2
MaxCols == 4
MaxLabelLen == 6
MaxNameLen == 3
MaxSynLen == 4

----------------------------------------------------------------------------
(* Python values *)

None == [t |-> "None", v |-> <<>>, d |-> <<>>]
Str(s) == [t |-> "str", v |-> <<s>>, d |-> <<>>]
List(ss) == [t |-> "list", v |-> ss, d |-> <<>>]
Dict(m) == [t |-> "dict", v |-> <<>>, d |-> m]

EmptyDict == <<>>
Put(m, k, val) == [x \in (DOMAIN m) \cup {k} |-> IF x = k THEN val ELSE m[x]]

NULL == <<"N", "U", "L", "L">>

----------------------------------------------------------------------------
(* Module constants of processing.py *)

FIELDS ==
  [c \in {"rdf-schema#label", "URI", "rdf-schema#comment", "synonym", "name",
          "family_label", "class_label", "phylum_label", "order_label",
          "kingdom_label", "genus_label"} |->
     CASE c = "rdf-schema#label" -> "label"
       [] c = "URI" -> "uri"
       [] c = "rdf-schema#comment" -> "description"
       [] c = "synonym" -> "synonym"
       [] c = "name" -> "name"
       [] c = "family_label" -> "family"
       [] c = "class_label" -> "class"
       [] c = "phylum_label" -> "phylum"
       [] c = "order_label" -> "order"
       [] c = "kingdom_label" -> "kingdom"
       [] c = "genus_label" -> "genus"]

CLASSIFICATION == {"family", "class", "phylum", "order", "kingdom", "genus"}

SkipLines == 3

----------------------------------------------------------------------------
(* Character classes of Python 2 byte strings *)

WordChars ==
  {"a","b","c","d","e","f","g","h","i","j","k","l","m","n","o","p","q","r","s",
   "t","u","v","w","x","y","z",
   "A","B","C","D","E","F","G","H","I","J","K","L","M","N","O","P","Q","R","S",
   "T","U","V","W","X","Y","Z",
   "0","1","2","3","4","5","6","7","8","9","_"}

Whitespace == {" ", "\t", "\n", "\r", "\f"}

(* str.strip(): drop leading and trailing whitespace *)
RECURSIVE LStrip(_)
LStrip(s) ==
  IF s # <<>> /\ Head(s) \in Whitespace THEN LStrip(Tail(s)) ELSE s

RECURSIVE RStrip(_)
RStrip(s) ==
  IF s # <<>> /\ s[Len(s)] \in Whitespace
    THEN RStrip(SubSeq(s, 1, Len(s) - 1))
    ELSE s

Strip(s) == RStrip(LStrip(s))

(* str.replace(ch, ''): delete every occurrence of the character ch *)
Replace(s, ch) == SelectSeq(s, LAMBDA x : x # ch)

(* str.split(sep) for a one-character separator: always at least one part *)
RECURSIVE Split(_, _)
Split(s, sep) ==
  IF \E i \in 1..Len(s) : s[i] = sep
    THEN LET i == CHOOSE k \in 1..Len(s) :
                    s[k] = sep /\ \A q \in 1..(k - 1) : s[q] # sep
         IN <<SubSeq(s, 1, i - 1)>> \o Split(SubSeq(s, i + 1, Len(s)), sep)
    ELSE <<s>>

----------------------------------------------------------------------------
(* process_rdf: re.sub(r"\([\w]+\)", "", value) *)

(* length of the greedy [\w]+ run that starts at position i *)
RECURSIVE WordRun(_, _)
WordRun(s, i) ==
  IF i <= Len(s) /\ s[i] \in WordChars THEN 1 + WordRun(s, i + 1) ELSE 0

(* MatchEnd for the pattern \([\w]*\), which also matches "()" *)
MatchEnd_star(s, i) ==
  IF s[i] = "("
    THEN LET n == WordRun(s, i + 1)
         IN IF i + n + 1 <= Len(s) /\ s[i + n + 1] = ")" THEN i + n + 1 ELSE 0
    ELSE 0

(* position of the ")" closing a match that starts at i, or 0 *)
MatchEnd(s, i) ==
  IF s[i] = "("
    THEN LET n == WordRun(s, i + 1)
         IN IF n >= 1 /\ i + n + 1 <= Len(s) /\ s[i + n + 1] = ")"
              THEN i + n + 1
              ELSE 0
    ELSE 0

(* one left-to-right pass: a match is dropped and the scan resumes after it *)
RECURSIVE SubFrom(_, _)
SubFrom(s, i) ==
  IF i > Len(s)
    THEN <<>>
    ELSE LET j == MatchEnd(s, i)
         IN IF j > 0 THEN SubFrom(s, j + 1) ELSE <<s[i]>> \o SubFrom(s, i + 1)

process_rdf(value) == SubFrom(value, 1)

----------------------------------------------------------------------------
(* process_name *)

non_alpha_search(value) == \E i \in 1..Len(value) : value[i] \notin WordChars

(* process_name without the test for "NULL" *)
process_name_no_null(value, label) ==
  IF non_alpha_search(value) THEN label ELSE value

process_name(value, label) ==
  IF value = NULL \/ non_alpha_search(value) THEN label ELSE value

----------------------------------------------------------------------------
(* process_synonym *)

(* process_synonym that splits before it strips the outer whitespace *)
process_synonym_no_strip(value) ==
  Split(Replace(Replace(Replace(value, "{"), "}"), "*"), "|")

process_synonym(value) ==
  Split(Strip(Replace(Replace(Replace(value, "{"), "}"), "*")), "|")

----------------------------------------------------------------------------
(* process_file *)

(* lines 118-127: the cleaned value of one element of the line *)
CleanValue(e, raw) ==
  IF e = "rdf-schema#label" THEN Str(Strip(process_rdf(raw)))
  ELSE IF e = "name" THEN Str(Strip(process_name(raw, temp["label"].v[1])))
  ELSE IF raw = NULL THEN None
  ELSE IF e = "synonym" THEN List(process_synonym(raw))
  ELSE Str(Strip(raw))

(* a routing test that never selects the classification dictionary *)
InClassification_never(e) == FIELDS[e] \in {}

(* line 128: the test that routes a value into the classification dictionary *)
InClassification(e) == FIELDS[e] \in CLASSIFICATION

(* the dictionary lookups of lines 121 and 128 that raise KeyError *)
RaisesKeyError(e) ==
  \/ e = "name" /\ "label" \notin DOMAIN temp
  \/ e \notin DOMAIN FIELDS

----------------------------------------------------------------------------
(* Input files *)

Range(f) == {f[i] : i \in DOMAIN f}

Strings(A, n) == UNION {[1..k -> A] : k \in 0..n}

(* a header: distinct columns in some iteration order *)
Headers(C, n) ==
  {h \in UNION {[1..k -> C] : k \in 1..n} :
     \A i, j \in 1..Len(h) : i # j => h[i] # h[j]}

(* the rows a file with header h can hold when column c draws from V[c] *)
LinesOf(h, V) ==
  {l \in [Range(h) -> UNION {V[c] : c \in Range(h)}] : \A c \in Range(h) : l[c] \in V[c]}

FilesOf(h, V, n) == UNION {[1..k -> LinesOf(h, V)] : k \in 0..n}

(* columns of the multi-column files: label, name, synonym, a classification *)
(* column, a plain column and a column that FIELDS does not list            *)
Columns == {"rdf-schema#label", "name", "synonym", "family_label", "URI", "thumbnail"}

ColumnValues ==
  [c \in Columns |->
     CASE c = "rdf-schema#label" -> {<<"a", " ", "(", "b", ")">>, NULL}
       [] c = "name" -> {NULL, <<"a", "_", "b">>}
       [] c = "synonym" -> {NULL, <<"{", "a", "|", " ", "b", "}">>}
       [] c = "family_label" -> {NULL, <<" ", "a", " ">>}
       [] c = "URI" -> {<<"u", " ">>}
       [] c = "thumbnail" -> {<<"t">>}]

LabelChars == {"(", ")", "a", " "}
NameChars == {"a", "_", "-", " "}
SynonymChars == {"{", "}", "*", "|", " ", "a"}

LabelValues ==
  [c \in {"rdf-schema#label"} |-> Strings(LabelChars, MaxLabelLen) \cup {NULL}]

NameValues ==
  [c \in {"rdf-schema#label", "name"} |->
     IF c = "name"
       THEN Strings(NameChars, MaxNameLen) \cup {NULL, <<"N", "U", "L">>}
       ELSE {<<"a", "(", "b", ")", " ">>, << >>}]

SynonymValues ==
  [c \in {"synonym"} |->
     Strings(SynonymChars, MaxSynLen) \cup {NULL, <<"{", "N", "U", "L", "L", "}">>}]

Start ==
  /\ skipped = 0
  /\ linenum = 0
  /\ line = EmptyDict
  /\ iter = <<>>
  /\ element = ""
  /\ temp = EmptyDict
  /\ classification = EmptyDict
  /\ data = <<>>
  /\ pc = "skip"

(* files of up to MaxRows rows with up to MaxLongCols columns *)
InitLong ==
  /\ fieldnames \in Headers(Columns, MaxLongCols)
  /\ leading = SkipLines
  /\ csvrows \in FilesOf(fieldnames, ColumnValues, MaxRows)

(* one-row files with up to MaxCols columns *)
InitWide ==
  /\ fieldnames \in Headers(Columns, MaxCols)
  /\ leading = SkipLines
  /\ csvrows \in [1..1 -> LinesOf(fieldnames, ColumnValues)]

(* files that end within the three leading lines *)
InitShort ==
  /\ fieldnames \in Headers(Columns, 1)
  /\ leading \in 0..(SkipLines - 1)
  /\ csvrows = <<>>

(* one-row files over all short strings of one column *)
InitLabel ==
  /\ fieldnames = <<"rdf-schema#label">>
  /\ leading = SkipLines
  /\ csvrows \in [1..1 -> LinesOf(fieldnames, LabelValues)]

InitName ==
  /\ fieldnames \in {<<"rdf-schema#label", "name">>, <<"name", "rdf-schema#label">>}
  /\ leading = SkipLines
  /\ csvrows \in [1..1 -> LinesOf(fieldnames, NameValues)]

InitSynonym ==
  /\ fieldnames = <<"synonym">>
  /\ leading = SkipLines
  /\ csvrows \in [1..1 -> LinesOf(fieldnames, SynonymValues)]

Init ==
  /\ fields = FIELDS
  /\ (InitLong \/ InitWide \/ InitShort \/ InitLabel \/ InitName \/ InitSynonym)
  /\ Start

(* lines 111-112: reader.next() on one of the three leading lines *)
SkipLine ==
  /\ pc = "skip"
  /\ skipped < leading
  /\ skipped' = skipped + 1
  /\ pc' = IF skipped + 1 = SkipLines THEN "next_line" ELSE "skip"
  /\ UNCHANGED <<fields, fieldnames, leading, csvrows, linenum, line, iter, element,
                 temp, classification, data>>

(* line 112: reader.next() on a file that has ended *)
SkipStopIteration ==
  /\ pc = "skip"
  /\ skipped = leading
  /\ pc' = "StopIteration"
  /\ UNCHANGED <<fields, fieldnames, leading, csvrows, skipped, linenum, line, iter,
                 element, temp, classification, data>>

(* lines 113-115: the reader yields the next row *)
StartRow ==
  /\ pc = "next_line"
  /\ linenum < Len(csvrows)
  /\ linenum' = linenum + 1
  /\ line' = csvrows[linenum + 1]
  /\ iter' = fieldnames
  /\ temp' = EmptyDict
  /\ classification' = EmptyDict
  /\ pc' = "elements"
  /\ UNCHANGED <<fields, fieldnames, leading, csvrows, skipped, element, data>>

(* lines 116-131: one iteration of "for element in line" that completes *)
ProcessElement ==
  /\ pc = "elements"
  /\ iter # <<>>
  /\ LET e == Head(iter)
     IN /\ element' = e
        /\ iter' = Tail(iter)
        /\ IF e \in DOMAIN fields
             THEN /\ ~RaisesKeyError(e)
                  /\ LET val == CleanValue(e, line[e])
                     IN IF InClassification(e)
                          THEN /\ classification' = Put(classification, FIELDS[e], val)
                               /\ temp' = temp
                          ELSE /\ temp' = Put(temp, FIELDS[e], val)
                               /\ classification' = classification
             ELSE UNCHANGED <<temp, classification>>
  /\ UNCHANGED <<fields, fieldnames, leading, csvrows, skipped, linenum, line, data, pc>>

(* lines 121 and 128: an iteration that raises KeyError; process_file aborts *)
ProcessElementKeyError ==
  /\ pc = "elements"
  /\ iter # <<>>
  /\ Head(iter) \in DOMAIN fields
  /\ RaisesKeyError(Head(iter))
  /\ element' = Head(iter)
  /\ iter' = Tail(iter)
  /\ pc' = "KeyError"
  /\ UNCHANGED <<fields, fieldnames, leading, csvrows, skipped, linenum, line, temp,
                 classification, data>>

(* FinishRow that appends temp without attaching classification *)
FinishRow_no_classification ==
  /\ pc = "elements"
  /\ iter = <<>>
  /\ data' = Append(data, temp)
  /\ pc' = "next_line"
  /\ UNCHANGED <<fields, fieldnames, leading, csvrows, skipped, linenum, line, iter,
                 element, temp, classification>>

(* FinishRow that inserts the record at the front of data *)
FinishRow_insert_front ==
  /\ pc = "elements"
  /\ iter = <<>>
  /\ data' = <<Put(temp, "classification", Dict(classification))>> \o data
  /\ pc' = "next_line"
  /\ UNCHANGED <<fields, fieldnames, leading, csvrows, skipped, linenum, line, iter,
                 element, temp, classification>>

(* lines 132-133: the loop over the line is over *)
FinishRow ==
  /\ pc = "elements"
  /\ iter = <<>>
  /\ data' = Append(data, Put(temp, "classification", Dict(classification)))
  /\ pc' = "next_line"
  /\ UNCHANGED <<fields, fieldnames, leading, csvrows, skipped, linenum, line, iter,
                 element, temp, classification>>

(* line 134: the reader is exhausted *)
Return ==
  /\ pc = "next_line"
  /\ linenum = Len(csvrows)
  /\ pc' = "returned"
  /\ UNCHANGED <<fields, fieldnames, leading, csvrows, skipped, linenum, line, iter,
                 element, temp, classification, data>>

Next ==
  \/ SkipLine
  \/ SkipStopIteration
  \/ StartRow
  \/ ProcessElement
  \/ ProcessElementKeyError
  \/ FinishRow
  \/ Return

Spec == Init /\ [][Next]_vars

(* process_file called with a fields argument other than FIELDS *)
FieldMaps ==
  {FIELDS,
   [c \in {"rdf-schema#label", "name", "URI"} |->
      CASE c = "rdf-schema#label" -> "label" [] c = "name" -> "name" [] c = "URI" -> "link"],
   [c \in {"rdf-schema#label", "thumbnail"} |->
      CASE c = "rdf-schema#label" -> "label" [] c = "thumbnail" -> "image"]}

InitFields ==
  /\ fields \in FieldMaps
  /\ (InitLong \/ InitWide \/ InitShort)
  /\ Start

SpecFields == InitFields /\ [][Next]_vars

----------------------------------------------------------------------------
(* Properties *)

(* the finished records and the rows they were built from *)
Done == 1..Len(data)
Cls(k) == data[k]["classification"].d

(* C1: in a row that has both the label column and the name column, whatever *)
(* the iteration order, the label is in temp when the name is processed and  *)
(* the row does not fail.                                                    *)
C1_LabelResolvedBeforeName ==
  ("rdf-schema#label" \in DOMAIN line /\ "name" \in DOMAIN line) =>
     /\ (pc = "elements" /\ iter # <<>> /\ Head(iter) = "name") => "label" \in DOMAIN temp
     /\ pc # "KeyError"

(* C2: no value of a finished record, top-level or inside classification, is *)
(* the string "NULL".                                                        *)
C2_NoNullPreserved ==
  \A k \in Done :
    /\ \A key \in DOMAIN data[k] :
         ~(data[k][key].t = "str" /\ data[k][key].v[1] = NULL)
    /\ \A key \in DOMAIN Cls(k) :
         ~(Cls(k)[key].t = "str" /\ Cls(k)[key].v[1] = NULL)

(* what process_synonym is to return for a raw value: the parts, none of     *)
(* which holds a "|", that joined by "|" give the raw value without its      *)
(* braces and stars, trimmed                                                 *)
RECURSIVE Join(_, _)
Join(parts, sep) ==
  IF Len(parts) = 1 THEN parts[1] ELSE parts[1] \o <<sep>> \o Join(Tail(parts), sep)

IsSynonymOf(val, raw) ==
  /\ val.t = "list"
  /\ Len(val.v) >= 1
  /\ \A i \in 1..Len(val.v) : "|" \notin Range(val.v[i])
  /\ Join(val.v, "|") = Strip(SelectSeq(raw, LAMBDA x : x \notin {"{", "}", "*"}))

(* C3 as claimed: for every raw synonym the record's synonym is the          *)
(* non-empty list of the parts of the cleaned raw value.                     *)
C3_SynonymAlwaysList ==
  \A k \in Done :
    "synonym" \in DOMAIN csvrows[k] => IsSynonymOf(data[k]["synonym"], csvrows[k]["synonym"])

(* C3 amended: for every raw synonym other than "NULL" the record's synonym  *)
(* is that non-empty list; for the raw value "NULL" it is None.              *)
C3_SynonymListUnlessNull ==
  \A k \in Done :
    "synonym" \in DOMAIN csvrows[k] =>
       IF csvrows[k]["synonym"] = NULL
         THEN data[k]["synonym"] = None
         ELSE IsSynonymOf(data[k]["synonym"], csvrows[k]["synonym"])

(* a record whose raw synonym had braces, a star, outer blanks and one "|" *)
C3_Witness ==
  \E k \in Done :
    /\ "synonym" \in DOMAIN csvrows[k]
    /\ csvrows[k]["synonym"] = <<" ", "{", "|", "*">>
    /\ data[k]["synonym"] = List(<< <<>>, <<>> >>)

C5_ClassificationPresent ==
  \A k \in Done :
    /\ "classification" \in DOMAIN data[k]
    /\ data[k]["classification"].t = "dict"
    /\ (\A c \in DOMAIN csvrows[k] : c \in DOMAIN FIELDS => FIELDS[c] \notin CLASSIFICATION)
          => DOMAIN Cls(k) = {}
    /\ \A c \in DOMAIN csvrows[k] :
         (c \in DOMAIN FIELDS /\ FIELDS[c] \in CLASSIFICATION /\ csvrows[k][c] = NULL)
            => Cls(k)[FIELDS[c]] = None

(* a record of a row whose only classification column is "NULL" *)
C5_Witness ==
  \E k \in Done :
    /\ "family_label" \in DOMAIN csvrows[k]
    /\ csvrows[k]["family_label"] = NULL
    /\ Cls(k) = [f \in {"family"} |-> None]

(* the record that one row alone determines: by column, the value the      *)
(* cleaning rules give its cell, the name falling back to the row's label   *)
ExpectedLabel(l) == Strip(process_rdf(l["rdf-schema#label"]))

ExpectedValue(l, c) ==
  CASE c = "rdf-schema#label" -> Str(ExpectedLabel(l))
    [] c = "name" ->
         IF l[c] = NULL \/ \E i \in 1..Len(l[c]) : l[c][i] \notin WordChars
           THEN Str(ExpectedLabel(l))
           ELSE Str(l[c])
    [] OTHER ->
         IF l[c] = NULL THEN None
         ELSE IF c = "synonym" THEN List(process_synonym(l[c]))
         ELSE Str(Strip(l[c]))

Mapped(l) == DOMAIN l \cap DOMAIN FIELDS
Nested(l) == {c \in Mapped(l) : FIELDS[c] \in CLASSIFICATION}
ColumnOf(key) == CHOOSE c \in DOMAIN FIELDS : FIELDS[c] = key

ExpectedClassification(l) ==
  [key \in {FIELDS[c] : c \in Nested(l)} |-> ExpectedValue(l, ColumnOf(key))]

ExpectedRecord(l) ==
  [key \in {FIELDS[c] : c \in Mapped(l) \ Nested(l)} \cup {"classification"} |->
     IF key = "classification"
       THEN Dict(ExpectedClassification(l))
       ELSE ExpectedValue(l, ColumnOf(key))]

(* C6: unless a row failed, there is one finished record per row read, in    *)
(* the order of the rows, and the k-th record is the one its own row alone   *)
(* determines; on return there is one record per row of the file.            *)
C6_OneRecordPerRow ==
  pc \notin {"KeyError", "StopIteration"} =>
     /\ Len(data) = IF pc = "elements" THEN linenum - 1 ELSE linenum
     /\ pc = "returned" => Len(data) = Len(csvrows)
     /\ \A k \in Done : data[k] = ExpectedRecord(csvrows[k])

(* two different rows were read and returned as two different records *)
C6_Witness ==
  /\ pc = "returned"
  /\ Len(data) = 2
  /\ csvrows[1] # csvrows[2]
  /\ data[1] # data[2]
  /\ "name" \in DOMAIN csvrows[1]

(* C7: a column of the row that the field map lists is stored in exactly one *)
(* place of the record: inside classification when its output name is a      *)
(* classification field, else at top level; other columns add no key.        *)
C7_StoredInExactlyOnePlace ==
  \A k \in Done :
    LET l == csvrows[k]
        listed == DOMAIN l \cap DOMAIN fields
    IN /\ \A c \in listed :
            IF fields[c] \in CLASSIFICATION
              THEN /\ fields[c] \in DOMAIN Cls(k)
                   /\ fields[c] \notin DOMAIN data[k]
                   /\ Cls(k)[fields[c]] = ExpectedValue(l, c)
              ELSE /\ fields[c] \in DOMAIN data[k]
                   /\ fields[c] \notin DOMAIN Cls(k)
                   /\ data[k][fields[c]] = ExpectedValue(l, c)
       /\ DOMAIN data[k] \cup DOMAIN Cls(k) = {fields[c] : c \in listed} \cup {"classification"}

(* a record of a row with a classification column, a top-level column and a *)
(* column the field map does not list                                       *)
C7_Witness ==
  \E k \in Done :
    /\ DOMAIN csvrows[k] = {"family_label", "URI", "thumbnail"}
    /\ DOMAIN data[k] = {"uri", "classification"}
    /\ DOMAIN Cls(k) = {"family"}

(* C8: whatever field map is passed, a listed column of the row is stored    *)
(* under the name that field map gives it, and no lookup fails on a column   *)
(* the passed field map lists.                                               *)
C8_NameFromFieldsArgument ==
  /\ \A k \in Done :
       \A c \in DOMAIN csvrows[k] \cap DOMAIN fields :
          fields[c] \in DOMAIN data[k] \cup DOMAIN Cls(k)
  /\ pc = "KeyError" => element \in DOMAIN FIELDS

(* C9: a field-map column the row lacks leaves no entry in the record, and  *)
(* a row that lacks the label column is still turned into a record.         *)
C9_AbsentColumnOmitted ==
  /\ \A k \in Done :
       /\ \A c \in DOMAIN fields \ DOMAIN csvrows[k] :
            fields[c] \notin DOMAIN data[k] \cup DOMAIN Cls(k)
       /\ "classification" \in DOMAIN data[k]
  /\ pc = "KeyError" => "rdf-schema#label" \in DOMAIN line

(* the positions of s inside an occurrence of "(" word characters ")" *)
InGroup(s) ==
  {p \in 1..Len(s) :
     \E i \in 1..p, j \in p..Len(s) :
        /\ s[i] = "(" /\ s[j] = ")" /\ j > i + 1
        /\ \A q \in (i + 1)..(j - 1) : s[q] \in WordChars}

Without(s, P) ==
  LET F[i \in 0..Len(s)] ==
        IF i = 0 THEN <<>> ELSE IF i \in P THEN F[i - 1] ELSE Append(F[i - 1], s[i])
  IN F[Len(s)]

(* C10 as claimed: the cleaned label is the raw label without its            *)
(* occurrences of "(" word characters ")", trimmed, and no such occurrence   *)
(* remains in it.                                                            *)
C10_NoGroupRemains ==
  \A k \in Done :
    "rdf-schema#label" \in DOMAIN csvrows[k] =>
       /\ data[k]["label"] = Str(Strip(Without(csvrows[k]["rdf-schema#label"],
                                               InGroup(csvrows[k]["rdf-schema#label"]))))
       /\ InGroup(data[k]["label"].v[1]) = {}

(* C10 amended: the cleaned label is the raw label without the occurrences   *)
(* of "(" word characters ")" that the raw label has, trimmed; an empty      *)
(* group or one with a blank stays.                                          *)
C10_GroupsOfRawLabelRemoved ==
  \A k \in Done :
    "rdf-schema#label" \in DOMAIN csvrows[k] =>
       data[k]["label"] = Str(Strip(Without(csvrows[k]["rdf-schema#label"],
                                            InGroup(csvrows[k]["rdf-schema#label"]))))

(* a label that lost a word group in the middle and kept a group with a blank *)
C10_Witness ==
  \E k \in Done :
    /\ "rdf-schema#label" \in DOMAIN csvrows[k]
    /\ csvrows[k]["rdf-schema#label"] = <<"(", "a", ")", "(", " ", ")">>
    /\ data[k]["label"] = Str(<<"(", " ", ")">>)

====
